---- MODULE Spec2Model ----
(***************************************************************************)
(* A model of the crawl controller of ecommerce_scraper.py:                *)
(* EcommerceMarketScraper.run_market_analysis and the methods it calls     *)
(* (scrape_product, is_valid_product_page, extract_product_data,           *)
(* save_to_csv), and main()'s try/except around it.                        *)
(*                                                                         *)
(* One iteration of the for loop is cut into the steps between which a     *)
(* KeyboardInterrupt can be delivered; pc names the step about to run.     *)
(* Durations are in tenths of a second (0.5 s = 5, 3 s = 30).              *)
(***************************************************************************)
EXTENDS Integers, Sequences, FiniteSets, TLC

\* ---------------------------------------------------------------- bounds

\* start_sku is drawn from 0..MaxStart
MaxStart == 1
\* max_sku of a short run is drawn from 0..SmallMaxSku
SmallMaxSku == 3
\* max_sku of the long run (start 0, default threshold)
LargeMaxSku == 102
\* max_consecutive_failures of a short run is drawn from -1..MaxThreshold
MaxThreshold == 3
\* the remote catalog serves product pages only for 0..LastProductSku
LastProductSku == 2
\* a document handed to extract_product_data on its own lacks at most
\* MaxMissing of the optional keys
MaxMissing == 2

\* ------------------------------------------------------ program constants

\* run_market_analysis(..., max_consecutive_failures: int = 100)
DefaultMaxConsecutiveFailures == 100
\* page_count % 100 == 0
RateLimitEvery == 100
\* time.sleep(3), in tenths of a second
RateLimitDelay == 30
\* time.sleep(0.5), in tenths of a second
SmallDelay == 5
\* len(product_title.get_text().strip()) > 3
MinTitleLen == 3
\* response.status_code == 404
HttpNotFound == 404
\* response.status_code != 200
HttpOk == 200

\* ------------------------------------------------------------- documents

\* The keys of product_data that extract_product_data stores into, in the
\* order of the stores in its try block.
Fields ==
    << "product_name", "price", "price_numeric", "product_description",
       "product_features", "stock_status", "model", "brand", "manufacturer",
       "category", "tags", "rating", "review_count", "main_image_url",
       "image_urls", "product_labels", "specifications" >>

FieldSet == { Fields[i] : i \in 1..Len(Fields) }

\* The keys read from nodes other than the title heading.
OptionalFields == FieldSet \ {"product_name"}

\* Raw text of the h1.title.page-title node.
RawTitles == {"", "LED", " Wire ", "USB Sensor Module"}

\* str.strip() on the raw titles.
Strip(s) == IF s = " Wire " THEN "Wire" ELSE s

\* len() of the stripped titles.
TextLen(s) ==
    CASE s = "" -> 0
      [] s = "LED" -> 3
      [] s = "Wire" -> 4
      [] s = "USB Sensor Module" -> 17

\* A parsed document, as far as the queries of the scraper see it:
\*   has_title     soup.find('h1', class_='title page-title') is a node
\*   title         that node's text
\*   has_container soup.find('div', id='product-product') is a node
\*   has_error     one of the three error indicators is a node
\*   probe_raises  a query of is_valid_product_page raises
\*   present       the keys the document's nodes hold a value for
\*   fault         the key on the way to whose store a statement raises,
\*                 after the store of the key before it ("none": no key)
Doc(ht, t, hc, he, pr, ps, f) ==
    [has_title |-> ht, title |-> t, has_container |-> hc, has_error |-> he,
     probe_raises |-> pr, present |-> ps, fault |-> f]

NoDoc == Doc(FALSE, "", FALSE, FALSE, FALSE, {}, "none")

\* return value None of scrape_product
None == [sku |-> -1, product_name |-> "", fields |-> {}]

\* product_data as initialised at the top of extract_product_data; fields
\* is the set of keys whose value is no longer the default.
DefaultRecord(sku) == [sku |-> sku, product_name |-> "", fields |-> {}]

\* The probes of is_valid_product_page raise: one of its own queries does,
\* or the query and the text of the title heading do, which
\* extract_product_data evaluates again for product_name.
ProbeRaises(doc) == doc.probe_raises \/ doc.fault = "product_name"

\* is_valid_product_page: FALSE when a probe raises (except Exception).
is_valid_product_page(doc) ==
    IF ProbeRaises(doc)
    THEN FALSE
    ELSE LET has_product_elements == doc.has_title /\ doc.has_container
             has_no_errors == ~doc.has_error
             has_meaningful_title ==
                 doc.has_title /\ TextLen(Strip(doc.title)) > MinTitleLen
         IN  has_product_elements /\ has_no_errors /\ has_meaningful_title

\* The store of key f gives it another value than its default: the node
\* holds one, and the store is reached (price_numeric inside the branch of
\* the price node, product_features inside that of the description,
\* manufacturer a copy of brand, image_urls the list with the main image
\* and the additional ones).
Stored(doc, f) ==
    CASE f = "price_numeric" -> {"price", "price_numeric"} \subseteq doc.present
      [] f = "product_features" ->
             {"product_description", "product_features"} \subseteq doc.present
      [] f = "manufacturer" -> "brand" \in doc.present
      [] f = "image_urls" ->
             "main_image_url" \in doc.present \/ "image_urls" \in doc.present
      [] OTHER -> f \in doc.present

\* One key's extraction: the node is found and its value stored, or the
\* key keeps its default.
ExtractField(doc, f, rec) ==
    IF f = "product_name"
    THEN IF doc.has_title
         THEN [rec EXCEPT !.product_name = Strip(doc.title)]
         ELSE rec
    ELSE IF Stored(doc, f)
         THEN [rec EXCEPT !.fields = @ \cup {f}]
         ELSE rec

\* The body of the single try block, from key number i on: the keys before
\* the one that raises are stored (rating before review_count raises,
\* main_image_url before image_urls raises), the raise ends the block, and
\* the except clause logs the error.
RECURSIVE ExtractFrom(_, _, _)
ExtractFrom(doc, i, rec) ==
    IF i > Len(Fields)
    THEN [record |-> rec, error_logged |-> FALSE]
    ELSE IF doc.fault = Fields[i]
         THEN [record |-> rec, error_logged |-> TRUE]
         ELSE ExtractFrom(doc, i + 1, ExtractField(doc, Fields[i], rec))

\* extract_product_data(soup, sku, url)
extract_product_data(doc, sku) == ExtractFrom(doc, 1, DefaultRecord(sku))

\* ------------------------------------------------------------- the site

\* Documents served with status 200 that are no product: too short a title,
\* no product container, an error marker, a probe that raises, and a
\* heading whose text cannot be read (by the probe first).
NoiseDocs ==
    { Doc(TRUE, "LED", TRUE, FALSE, FALSE, OptionalFields, "none"),
      Doc(TRUE, "USB Sensor Module", FALSE, FALSE, FALSE, {}, "none"),
      Doc(TRUE, "USB Sensor Module", TRUE, TRUE, FALSE, {}, "none"),
      Doc(FALSE, "", FALSE, FALSE, TRUE, {}, "none"),
      Doc(TRUE, " Wire ", TRUE, FALSE, FALSE, {"price"}, "product_name") }

\* Product pages: a complete one, and one whose image extraction raises.
ProductDocs ==
    { Doc(TRUE, "USB Sensor Module", TRUE, FALSE, FALSE, OptionalFields, "none"),
      Doc(TRUE, " Wire ", TRUE, FALSE, FALSE, OptionalFields, "image_urls") }

StatusCodes == {HttpOk, 204, HttpNotFound, 500}

\* What session.get and the parser can do for one identifier: raise a
\* RequestException, answer with a status and a body, or answer 200 with a
\* body whose parsing raises another Exception.
Responses(id) ==
    { [kind |-> "RequestException", status |-> 0, doc |-> NoDoc],
      [kind |-> "Exception", status |-> HttpOk, doc |-> NoDoc] }
    \cup { [kind |-> "response", status |-> c, doc |-> NoDoc] :
              c \in StatusCodes \ {HttpOk} }
    \cup { [kind |-> "response", status |-> HttpOk, doc |-> d] :
              d \in NoiseDocs \cup
                    (IF id <= LastProductSku THEN ProductDocs ELSE {}) }

\* ----------------------------------------------------------------- state

VARIABLES
    \* parameters of run_market_analysis
    start_sku, max_sku, max_consecutive_failures,
    \* the session: the counters and the corpus of __init__
    successful_scrapes, failed_scrapes, consecutive_failures, products_data,
    \* locals of run_market_analysis and scrape_product
    page_count, sku, next_sku, soup, product_data,
    \* control: the step about to run, and who called save_to_csv
    pc, caller,
    \* what the run does to the outside: time.sleep calls per duration,
    \* save_to_csv calls, files written, warning lines logged at shutdown,
    \* and whether extract_product_data logged an error for this identifier
    sleeps, save_calls, csv_files, summary_files, shutdown_warnings,
    extract_error_logged,
    \* observations of the run, read by the properties only
    outcome, fault, entry, attempted, succeeded, trailing, first_failed,
    exit_reason, interrupted_at

vars ==
    << start_sku, max_sku, max_consecutive_failures,
       successful_scrapes, failed_scrapes, consecutive_failures, products_data,
       page_count, sku, next_sku, soup, product_data, pc, caller,
       sleeps, save_calls, csv_files, summary_files, shutdown_warnings,
       extract_error_logged,
       outcome, fault, entry, attempted, succeeded, trailing, first_failed,
       exit_reason, interrupted_at >>

params == << start_sku, max_sku, max_consecutive_failures >>
session == << successful_scrapes, failed_scrapes, consecutive_failures,
              products_data >>
outputs == << sleeps, save_calls, csv_files, summary_files,
              shutdown_warnings >>

\* The steps of one loop iteration during which an identifier is being
\* fetched, classified, extracted or booked.
MidStepPcs ==
    {"fetch", "classify", "extract", "checkname", "reset", "bookkeep",
     "bookconsec", "count"}

\* The steps of the loop between two identifiers.
BetweenPcs == {"for", "ratelimit", "stopcheck", "sleep"}

\* Everything main() runs inside its try block.
TryPcs ==
    MidStepPcs \cup BetweenPcs \cup {"finalize", "saving", "summary", "returned"}

\* The runs the model starts: short ranges with every small threshold and
\* the default one, and one long range with the defaults.
ShortRuns ==
    { <<s, m, t>> : s \in 0..MaxStart, m \in 0..SmallMaxSku,
                    t \in (-1..MaxThreshold) \cup {DefaultMaxConsecutiveFailures} }

LongRuns == { <<0, LargeMaxSku, DefaultMaxConsecutiveFailures>> }

\* The state after __init__ and the call of run_market_analysis, up to the
\* first evaluation of the for statement.
InitSession ==
    /\ successful_scrapes = 0
    /\ failed_scrapes = 0
    /\ consecutive_failures = 0
    /\ products_data = << >>
    /\ page_count = 0
    /\ product_data = None
    /\ caller = "none"
    /\ sleeps = [d \in {SmallDelay, RateLimitDelay} |-> 0]
    /\ save_calls = 0
    /\ csv_files = 0
    /\ summary_files = 0
    /\ shutdown_warnings = 0
    /\ extract_error_logged = FALSE
    /\ outcome = "pending"
    /\ fault = "none"
    /\ entry = [consecutive_failures |-> 0, failed_scrapes |-> 0,
                successful_scrapes |-> 0, products_data |-> << >>]
    /\ attempted = << >>
    /\ succeeded = {}
    /\ trailing = 0
    /\ first_failed = -1
    /\ exit_reason = "none"
    /\ interrupted_at = "none"

Init ==
    /\ \E r \in ShortRuns \cup LongRuns :
          /\ start_sku = r[1]
          /\ max_sku = r[2]
          /\ max_consecutive_failures = r[3]
    /\ sku = start_sku
    /\ next_sku = start_sku
    /\ pc = "for"
    /\ soup = NoDoc
    /\ InitSession

\* ----------------------------------------------------- run_market_analysis

\* range(start_sku, max_sku): the last identifier left out.
RangeHasNextExclusive(n, max) == n < max

\* for sku in range(start_sku, max_sku + 1): the range has another value.
RangeHasNext(n, max) == n < max + 1

\* Without page_count > 0: a pause before the first identifier too.
RateLimitDueFromZero(count) == count % RateLimitEvery = 0

\* if page_count > 0 and page_count % 100 == 0
RateLimitDue(count) == count > 0 /\ count % RateLimitEvery = 0

\* The stop condition with > for >=: one failure too late.
BreakerTrippedLate(count, threshold) == count > threshold

\* if self.consecutive_failures >= max_consecutive_failures
BreakerTripped(count, threshold) == count >= threshold

\* time.sleep(d)
time_sleep(d) == [sleeps EXCEPT ![d] = @ + 1]

\* The for statement takes the next identifier, or ends the loop.
ForNext ==
    /\ pc = "for"
    /\ IF RangeHasNext(next_sku, max_sku)
       THEN /\ sku' = next_sku
            /\ next_sku' = next_sku + 1
            /\ pc' = "ratelimit"
            /\ outcome' = "pending"
            /\ fault' = "none"
            /\ extract_error_logged' = FALSE
            /\ entry' = [consecutive_failures |-> consecutive_failures,
                         failed_scrapes |-> failed_scrapes,
                         successful_scrapes |-> successful_scrapes,
                         products_data |-> products_data]
            /\ UNCHANGED exit_reason
       ELSE /\ pc' = "finalize"
            /\ exit_reason' = "exhausted"
            /\ UNCHANGED << sku, next_sku, outcome, fault,
                            extract_error_logged, entry >>
    /\ UNCHANGED << params, session, page_count, soup, product_data, caller,
                    outputs, attempted, succeeded, trailing, first_failed,
                    interrupted_at >>

\* The 3 second pause after every 100 pages.
RateLimit ==
    /\ pc = "ratelimit"
    /\ sleeps' = IF RateLimitDue(page_count)
                 THEN time_sleep(RateLimitDelay)
                 ELSE sleeps
    /\ pc' = "fetch"
    /\ UNCHANGED << params, session, page_count, sku, next_sku, soup,
                    product_data, caller, save_calls, csv_files,
                    summary_files, shutdown_warnings, extract_error_logged,
                    outcome, fault, entry, attempted, succeeded, trailing,
                    first_failed, exit_reason, interrupted_at >>

\* ------------------------------------------------------------ scrape_product

\* Without the second except clause: only RequestException is caught.
ScrapeCatchesRequestOnly(exc) == exc = "RequestException"

\* The exception classes the except clauses of scrape_product catch:
\* requests.exceptions.RequestException and Exception.
ScrapeCatches(exc) == exc \in {"RequestException", "Exception"}

\* return None, with the reason the properties read
ReturnNone(o, f) ==
    /\ product_data' = None
    /\ soup' = NoDoc
    /\ outcome' = o
    /\ fault' = f
    /\ pc' = "bookkeep"

\* session.get(url, timeout=10), the status checks, and BeautifulSoup(...).
ScrapeFetch ==
    /\ pc = "fetch"
    /\ attempted' = Append(attempted, sku)
    /\ \E r \in Responses(sku) :
          IF r.kind # "response"
          THEN IF ScrapeCatches(r.kind)
               THEN ReturnNone(IF r.kind = "RequestException"
                               THEN "TransportError" ELSE "Unexpected", r.kind)
               ELSE /\ pc' = "except"
                    /\ fault' = r.kind
                    /\ UNCHANGED << product_data, soup, outcome >>
          ELSE IF r.status = HttpNotFound
               THEN ReturnNone("NotFound", "http_404")
               ELSE IF r.status # HttpOk
                    THEN ReturnNone("TransportError", "http_status")
                    ELSE /\ soup' = r.doc
                         /\ pc' = "classify"
                         /\ UNCHANGED << product_data, outcome, fault >>
    /\ UNCHANGED << params, session, page_count, sku, next_sku, caller,
                    outputs, extract_error_logged, entry, succeeded,
                    trailing, first_failed, exit_reason, interrupted_at >>

\* if not self.is_valid_product_page(soup, url): return None
ScrapeClassify ==
    /\ pc = "classify"
    /\ IF ~is_valid_product_page(soup)
       THEN ReturnNone("NotAProduct",
                       IF ProbeRaises(soup) THEN "probe" ELSE "none")
       ELSE /\ pc' = "extract"
            /\ UNCHANGED << product_data, soup, outcome, fault >>
    /\ UNCHANGED << params, session, page_count, sku, next_sku, caller,
                    outputs, extract_error_logged, entry, attempted,
                    succeeded, trailing, first_failed, exit_reason,
                    interrupted_at >>

\* product_data = self.extract_product_data(soup, sku, url)
ScrapeExtract ==
    /\ pc = "extract"
    /\ LET r == extract_product_data(soup, sku)
       IN  /\ product_data' = r.record
           /\ extract_error_logged' = r.error_logged
           /\ fault' = IF r.error_logged THEN "extraction" ELSE fault
    /\ pc' = "checkname"
    /\ UNCHANGED << params, session, page_count, sku, next_sku, soup, caller,
                    outputs, outcome, entry, attempted, succeeded, trailing,
                    first_failed, exit_reason, interrupted_at >>

\* if product_data['product_name']: self.successful_scrapes += 1; else
\* return None.
ScrapeCheckName ==
    /\ pc = "checkname"
    /\ IF product_data.product_name # ""
       THEN /\ successful_scrapes' = successful_scrapes + 1
            /\ pc' = "reset"
            /\ UNCHANGED << product_data, soup, outcome, fault >>
       ELSE /\ ReturnNone("EmptyName", fault)
            /\ UNCHANGED successful_scrapes
    /\ UNCHANGED << params, failed_scrapes, consecutive_failures,
                    products_data, page_count, sku, next_sku, caller, outputs,
                    extract_error_logged, entry, attempted, succeeded,
                    trailing, first_failed, exit_reason, interrupted_at >>

\* self.consecutive_failures = 0, the info line, and return product_data
ScrapeReturnRecord ==
    /\ pc = "reset"
    /\ consecutive_failures' = 0
    /\ outcome' = "Success"
    /\ succeeded' = succeeded \cup {sku}
    /\ soup' = NoDoc
    /\ pc' = "bookkeep"
    /\ UNCHANGED << params, successful_scrapes, failed_scrapes, products_data,
                    page_count, sku, next_sku, product_data, caller, outputs,
                    extract_error_logged, fault, entry, attempted, trailing,
                    first_failed, exit_reason, interrupted_at >>

\* ------------------------------------------- run_market_analysis, continued

\* self.products_data.append(product_data)
AppendRecord(corpus, rec) == Append(corpus, rec)

\* = 1 for += 1: a failure sets the count instead of raising it.
ConsecutiveSetToOne(ok, count) == IF ok THEN 0 ELSE 1

\* consecutive_failures after the if/else on the result of scrape_product
ConsecutiveAfter(ok, count) == IF ok THEN 0 ELSE count + 1

\* += 2 for += 1: a failure counted twice.
FailedCountedTwice(ok, count) == IF ok THEN count ELSE count + 2

\* failed_scrapes after the if/else on the result of scrape_product
FailedAfter(ok, count) == IF ok THEN count ELSE count + 1

\* The first statement of either branch of the if/else on product_data:
\* the record is appended, or the failure counted.
BookResult ==
    /\ pc = "bookkeep"
    /\ LET ok == product_data # None
       IN  /\ products_data' = IF ok
                               THEN AppendRecord(products_data, product_data)
                               ELSE products_data
           /\ failed_scrapes' = FailedAfter(ok, failed_scrapes)
    /\ pc' = "bookconsec"
    /\ UNCHANGED << params, successful_scrapes, consecutive_failures,
                    page_count, sku, next_sku, soup, product_data, caller,
                    outputs, extract_error_logged, outcome, fault, entry,
                    attempted, succeeded, trailing, first_failed, exit_reason,
                    interrupted_at >>

\* The second statement of either branch: consecutive_failures is reset,
\* or raised by one.
BookConsecutive ==
    /\ pc = "bookconsec"
    /\ consecutive_failures' =
          ConsecutiveAfter(product_data # None, consecutive_failures)
    /\ pc' = "count"
    /\ UNCHANGED << params, successful_scrapes, failed_scrapes, products_data,
                    page_count, sku, next_sku, soup, product_data, caller,
                    outputs, extract_error_logged, outcome, fault, entry,
                    attempted, succeeded, trailing, first_failed, exit_reason,
                    interrupted_at >>

\* page_count += 1, and the progress line: the identifier's step is done.
CountPage ==
    /\ pc = "count"
    /\ page_count' = page_count + 1
    /\ trailing' = IF outcome = "Success" THEN 0 ELSE trailing + 1
    /\ first_failed' = IF outcome = "Success" THEN -1
                       ELSE IF trailing = 0 THEN sku ELSE first_failed
    /\ pc' = "stopcheck"
    /\ UNCHANGED << params, session, sku, next_sku, soup, product_data,
                    caller, outputs, extract_error_logged, outcome, fault,
                    entry, attempted, succeeded, exit_reason, interrupted_at >>

\* The stop condition: break when the threshold is reached.
StopCondition ==
    /\ pc = "stopcheck"
    /\ IF BreakerTripped(consecutive_failures, max_consecutive_failures)
       THEN /\ pc' = "finalize"
            /\ exit_reason' = "breaker"
       ELSE /\ pc' = "sleep"
            /\ UNCHANGED exit_reason
    /\ UNCHANGED << params, session, page_count, sku, next_sku, soup,
                    product_data, caller, outputs, extract_error_logged,
                    outcome, fault, entry, attempted, succeeded, trailing,
                    first_failed, interrupted_at >>

\* time.sleep(0.5), the last statement of the loop body.
SmallSleep ==
    /\ pc = "sleep"
    /\ sleeps' = time_sleep(SmallDelay)
    /\ pc' = "for"
    /\ UNCHANGED << params, session, page_count, sku, next_sku, soup,
                    product_data, caller, save_calls, csv_files,
                    summary_files, shutdown_warnings, extract_error_logged,
                    outcome, fault, entry, attempted, succeeded, trailing,
                    first_failed, exit_reason, interrupted_at >>

\* After the loop: save the corpus, or warn that there is none.
SaveResults ==
    /\ pc = "finalize"
    /\ IF products_data # << >>
       THEN /\ save_calls' = save_calls + 1
            /\ caller' = "run"
            /\ pc' = "saving"
            /\ UNCHANGED shutdown_warnings
       ELSE /\ shutdown_warnings' = shutdown_warnings + 1
            /\ pc' = "returned"
            /\ UNCHANGED << save_calls, caller >>
    /\ UNCHANGED << params, session, page_count, sku, next_sku, soup,
                    product_data, sleeps, csv_files, summary_files,
                    extract_error_logged, outcome, fault, entry, attempted,
                    succeeded, trailing, first_failed, exit_reason,
                    interrupted_at >>

\* --------------------------------------------------------------- save_to_csv

\* What the file system does to df.to_csv, and to the open/write of the
\* summary: the call succeeds or raises.
IoOutcomes == {"ok", "raises"}

\* An exception leaves save_to_csv: from run_market_analysis on to main's
\* except clause, from main's except clause out of main.
SaveRaises ==
    /\ pc' = IF caller = "run" THEN "except" ELSE "crashed"
    /\ fault' = "io"

\* save_to_csv up to the line it logs after df.to_csv: warn and return on
\* an empty corpus, else flatten the records and write the CSV file.
SaveToCsv ==
    /\ pc = "saving"
    /\ IF products_data = << >>
       THEN /\ shutdown_warnings' = shutdown_warnings + 1
            /\ pc' = IF caller = "run" THEN "returned" ELSE "done"
            /\ UNCHANGED << csv_files, fault >>
       ELSE \E io \in IoOutcomes :
               /\ IF io = "ok"
                  THEN /\ csv_files' = csv_files + 1
                       /\ pc' = "summary"
                       /\ UNCHANGED fault
                  ELSE /\ SaveRaises
                       /\ UNCHANGED csv_files
               /\ UNCHANGED shutdown_warnings
    /\ UNCHANGED << params, session, page_count, sku, next_sku, soup,
                    product_data, caller, sleeps, save_calls, summary_files,
                    extract_error_logged, outcome, entry, attempted,
                    succeeded, trailing, first_failed, exit_reason,
                    interrupted_at >>

\* self.create_summary_report(df, filename), the last statement of
\* save_to_csv: the summary file is written, and save_to_csv returns.
create_summary_report ==
    /\ pc = "summary"
    /\ \E io \in IoOutcomes :
          IF io = "ok"
          THEN /\ summary_files' = summary_files + 1
               /\ pc' = IF caller = "run" THEN "returned" ELSE "done"
               /\ UNCHANGED fault
          ELSE /\ SaveRaises
               /\ UNCHANGED summary_files
    /\ UNCHANGED << params, session, page_count, sku, next_sku, soup,
                    product_data, caller, sleeps, save_calls, csv_files,
                    shutdown_warnings, extract_error_logged, outcome, entry,
                    attempted, succeeded, trailing, first_failed, exit_reason,
                    interrupted_at >>

\* ---------------------------------------------------------------------- main

\* run_market_analysis returns and main prints its two lines.
MainReturn ==
    /\ pc = "returned"
    /\ pc' = "done"
    /\ UNCHANGED << params, session, page_count, sku, next_sku, soup,
                    product_data, caller, outputs, extract_error_logged,
                    outcome, fault, entry, attempted, succeeded, trailing,
                    first_failed, exit_reason, interrupted_at >>

\* The operator's Ctrl-C: Python raises KeyboardInterrupt in the main
\* thread at whatever statement is running inside the try block; no except
\* clause below main's catches it (it is no Exception).
KeyboardInterrupt ==
    /\ pc \in TryPcs
    /\ pc \in {"saving", "summary"} => caller = "run"
    /\ interrupted_at = "none"
    /\ interrupted_at' = pc
    /\ pc' = "except"
    /\ UNCHANGED << params, session, page_count, sku, next_sku, soup,
                    product_data, caller, outputs, extract_error_logged,
                    outcome, fault, entry, attempted, succeeded, trailing,
                    first_failed, exit_reason >>

\* main's except clauses (KeyboardInterrupt and Exception do the same):
\* if scraper.products_data: scraper.save_to_csv()
ExceptHandler ==
    /\ pc = "except"
    /\ IF products_data # << >>
       THEN /\ save_calls' = save_calls + 1
            /\ caller' = "main"
            /\ pc' = "saving"
       ELSE /\ pc' = "done"
            /\ UNCHANGED << save_calls, caller >>
    /\ UNCHANGED << params, session, page_count, sku, next_sku, soup,
                    product_data, sleeps, csv_files, summary_files,
                    shutdown_warnings, extract_error_logged, outcome, fault,
                    entry, attempted, succeeded, trailing, first_failed,
                    exit_reason, interrupted_at >>

Next ==
    \/ ForNext
    \/ RateLimit
    \/ ScrapeFetch
    \/ ScrapeClassify
    \/ ScrapeExtract
    \/ ScrapeCheckName
    \/ ScrapeReturnRecord
    \/ BookResult
    \/ BookConsecutive
    \/ CountPage
    \/ StopCondition
    \/ SmallSleep
    \/ SaveResults
    \/ SaveToCsv
    \/ create_summary_report
    \/ MainReturn
    \/ KeyboardInterrupt
    \/ ExceptHandler

Spec == Init /\ [][Next]_vars

\* ------------------------------------------------- extraction on its own

\* The keys on the way to whose store a statement can raise: every key
\* but price_numeric (float's ValueError is caught where it is raised) and
\* manufacturer (a copy of the value just stored for brand).
FaultPoints == FieldSet \ {"price_numeric", "manufacturer"}

\* The documents extract_product_data is handed here: any title, the
\* optional keys but for at most MaxMissing of them, and any one key (or
\* none) whose extraction raises.
ExtractDocs ==
    { Doc(t[1], t[2], TRUE, FALSE, FALSE, OptionalFields \ ms, f) :
        t \in {<<FALSE, "">>} \cup { <<TRUE, x>> : x \in RawTitles },
        ms \in { m \in SUBSET OptionalFields : Cardinality(m) <= MaxMissing },
        f \in FaultPoints \cup {"none"} }

InitExtract ==
    /\ start_sku = 0
    /\ max_sku = 0
    /\ max_consecutive_failures = DefaultMaxConsecutiveFailures
    /\ sku = 0
    /\ next_sku = 1
    /\ pc = "extract"
    /\ InitSession
    /\ \E d \in ExtractDocs : soup = d

\* extract_product_data applied to every document of ExtractDocs.
NextExtract == ScrapeExtract

SpecExtract == InitExtract /\ [][NextExtract]_vars

\* --------------------------------------------------------------- helpers

\* The place of a field in the extraction order.
FieldIndex(f) == CHOOSE i \in 1..Len(Fields) : Fields[i] = f

\* The identifiers of the records of the corpus.
CorpusSkus == { products_data[i].sku : i \in 1..Len(products_data) }

\* main has ended: it returned, or an exception left it.
Terminated == pc \in {"done", "crashed"}

\* ================================================================ claims

\* ------------------------------------------------------------------- C1

\* C1, as claimed: for every threshold, the loop stops for the breaker only
\* once max_consecutive_failures consecutive non-successes have occurred,
\* and no identifier is processed once that many have occurred.
C1_BreakerForEveryThreshold ==
    /\ exit_reason = "breaker" => trailing >= max_consecutive_failures
    /\ pc \in MidStepPcs \cup {"ratelimit"} =>
          trailing < max_consecutive_failures

\* C1, amended: for a threshold T >= 1 the loop stops for the breaker
\* exactly when T consecutive non-successes have occurred (a run of
\* failures that starts at identifier s aborts at s + T - 1) and no
\* identifier is processed once T have occurred; for T <= 0 the breaker
\* stops the loop after the first identifier, whatever its outcome.
C1_BreakerExactlyAtThreshold ==
    IF max_consecutive_failures >= 1
    THEN /\ exit_reason = "breaker" =>
               /\ trailing = max_consecutive_failures
               /\ sku = first_failed + max_consecutive_failures - 1
         /\ pc \in MidStepPcs \cup {"ratelimit", "sleep"} =>
               trailing < max_consecutive_failures
    ELSE /\ page_count <= 1
         /\ exit_reason = "breaker" => page_count = 1
         /\ exit_reason = "exhausted" => page_count = 0

\* C1 witness: the breaker stopped a run with threshold 2 whose failures
\* began after a success.
C1_Witness ==
    /\ exit_reason = "breaker"
    /\ max_consecutive_failures = 2
    /\ products_data # << >>
    /\ first_failed > start_sku
    /\ sku = first_failed + 1

\* ------------------------------------------------------------------- C2

\* C2: when main has ended with a non-empty corpus, save_to_csv has been
\* called exactly once, whichever way the run ended.
C2_SavedExactlyOnce ==
    (Terminated /\ products_data # << >>) => save_calls = 1

\* ------------------------------------------------------------------- C3

\* C3: after the step of an identifier, consecutive_failures is 0 if the
\* step succeeded and the value it had when the step began plus 1 if not.
C3_ConsecutiveAfterStep ==
    pc \in {"stopcheck", "sleep"} =>
        consecutive_failures =
            IF outcome = "Success" THEN 0
            ELSE entry.consecutive_failures + 1

\* C3 witness: a success has just reset a count that stood at 1 or more.
C3_Witness ==
    /\ pc = "stopcheck"
    /\ outcome = "Success"
    /\ entry.consecutive_failures >= 1
    /\ consecutive_failures = 0

\* ------------------------------------------------------------------- C4

\* C4: a KeyboardInterrupt is delivered only between two identifiers, and
\* when main's handler runs every counted success has its record.
C4_InterruptOnlyBetweenIterations ==
    /\ interrupted_at \notin MidStepPcs
    /\ interrupted_at # "none" => successful_scrapes = Len(products_data)

\* ------------------------------------------------------------------- C5

\* C5: the identifiers attempted are start_sku, start_sku + 1, ... with no
\* repetition; the corpus is in strictly ascending identifier order and
\* holds exactly one record for each identifier whose step succeeded
\* (scrape_product returned its record) and none for any other identifier.
\* While the loop stands between that return and the append that follows
\* it, the record of the current identifier is not asked for yet.
C5_CorpusAscendingOnePerSuccess ==
    /\ \A i \in 1..Len(attempted) : attempted[i] = start_sku + i - 1
    /\ \A i \in 1..Len(products_data) : \A j \in 1..Len(products_data) :
          i < j => products_data[i].sku < products_data[j].sku
    /\ CorpusSkus = IF pc = "bookkeep" THEN succeeded \ {sku} ELSE succeeded
    /\ \A i \in 1..Len(products_data) :
          products_data[i].product_name # ""

\* ------------------------------------------------------------------- C6

\* C6: when the extraction of one field raises, the error is logged, that
\* field keeps its default, every later field whose node is in the document
\* is still extracted, and a record is returned.
C6_LaterFieldsStillExtracted ==
    (pc = "checkname" /\ soup.fault # "none") =>
        /\ extract_error_logged
        /\ product_data.sku = sku
        /\ soup.fault \notin product_data.fields
        /\ soup.fault = "product_name" => product_data.product_name = ""
        /\ \A f \in soup.present :
              FieldIndex(f) > FieldIndex(soup.fault) =>
                  f \in product_data.fields

\* ------------------------------------------------------------------- C7

\* The failures of C7, as the fault observed for the identifier.
C7_Failures ==
    {"http_404", "http_status", "RequestException", "Exception", "probe",
     "extraction"}

\* C7, as claimed: every such failure ends the step of its identifier as a
\* non-success that is counted as a failure.
C7_EveryFailureIsANonSuccess ==
    (pc = "stopcheck" /\ fault \in C7_Failures) =>
        /\ outcome # "Success"
        /\ product_data = None
        /\ failed_scrapes = entry.failed_scrapes + 1

\* One step of the program, as C7 amended constrains it.
C7_Step ==
    \* nothing but a KeyboardInterrupt takes the run out of an identifier's
    \* step before its bookkeeping is done
    /\ (pc \in MidStepPcs /\ pc' \notin MidStepPcs \cup {"stopcheck"}) =>
          (interrupted_at = "none" /\ interrupted_at' = pc)
    \* the bookkeeping counts the failure, or appends the record
    /\ (pc = "count" /\ pc' = "stopcheck") =>
          /\ fault \in C7_Failures \ {"extraction"} =>
                /\ outcome # "Success"
                /\ failed_scrapes' = entry.failed_scrapes + 1
                /\ products_data' = entry.products_data
          /\ fault = "extraction" =>
                /\ outcome \in {"Success", "EmptyName"}
                /\ outcome = "EmptyName" =>
                      /\ failed_scrapes' = entry.failed_scrapes + 1
                      /\ products_data' = entry.products_data
                /\ outcome = "Success" =>
                      /\ failed_scrapes' = entry.failed_scrapes
                      /\ Len(products_data') = Len(entry.products_data) + 1
                      /\ products_data'[Len(products_data')].sku = sku
    \* after a failure the loop goes on unless the breaker trips
    /\ (pc = "stopcheck" /\ fault \in C7_Failures /\ interrupted_at' = "none") =>
          pc' = IF consecutive_failures >= max_consecutive_failures
                THEN "finalize" ELSE "sleep"
    /\ (pc = "sleep" /\ interrupted_at' = "none") => pc' = "for"
    /\ (pc = "for" /\ page_count >= 1 /\ pc' = "ratelimit") => sku' = sku + 1

\* C7, amended: no failure inside fetching, classification or extraction
\* ends the crawl. HTTP 404, another status than 200, a network exception,
\* another exception and an exception while probing make the identifier a
\* non-success that is counted as a failure; an exception during extraction
\* is caught and the partial record is returned, so the identifier is a
\* non-success only if its name is still empty and a success otherwise. The
\* loop then goes on to the next identifier unless the breaker trips.
C7_FailuresNeverEndTheCrawl == [][C7_Step]_vars

\* C7 witness: after a probe that raised, the loop is about to go on.
C7_Witness ==
    /\ pc = "sleep"
    /\ fault = "probe"
    /\ outcome = "NotAProduct"
    /\ failed_scrapes = entry.failed_scrapes + 1
    /\ next_sku <= max_sku

\* ------------------------------------------------------------------- C8

\* One step of the program, as C8 constrains it.
C8_Step ==
    \* the loop is left before the range is exhausted only by the breaker,
    \* with the count at the threshold or above it
    /\ (pc = "stopcheck" /\ interrupted_at' = "none") =>
          pc' = IF consecutive_failures >= max_consecutive_failures
                THEN "finalize" ELSE "sleep"
    \* exhausting the range changes no counter
    /\ (pc = "for" /\ pc' = "finalize") =>
          /\ exit_reason' = "exhausted"
          /\ failed_scrapes' = failed_scrapes
          /\ consecutive_failures' = consecutive_failures
    \* and by then every identifier of the range was attempted once
    /\ (exit_reason' = "exhausted" /\ start_sku <= max_sku) =>
          /\ Len(attempted') = max_sku - start_sku + 1
          /\ \A i \in 1..Len(attempted') : attempted'[i] = start_sku + i - 1
          /\ attempted'[1] = start_sku
          /\ attempted'[Len(attempted')] = max_sku
          /\ page_count' = max_sku - start_sku + 1

\* C8: without an interruption and with the count below the threshold
\* after every step, every identifier of start_sku..max_sku is attempted
\* exactly once, the loop ends by exhausting the range with page_count =
\* max_sku - start_sku + 1, and the exhaustion changes neither
\* failed_scrapes nor consecutive_failures.
C8_RangeExhaustedInclusive == [][C8_Step]_vars

\* C8 witness: a run of four identifiers ended by exhaustion, one failure
\* short of its threshold.
C8_Witness ==
    /\ pc = "done"
    /\ interrupted_at = "none"
    /\ exit_reason = "exhausted"
    /\ page_count = 4
    /\ max_consecutive_failures = 3
    /\ consecutive_failures = 2

\* ------------------------------------------------------------------- C9

\* C9: when main has ended with an empty corpus, no file was written and
\* exactly one warning line was logged at shutdown.
C9_EmptyCorpusOneWarning ==
    (Terminated /\ products_data = << >>) =>
        /\ csv_files = 0
        /\ summary_files = 0
        /\ shutdown_warnings = 1

\* ------------------------------------------------------------------ C10

\* The positive multiples of 100 up to n.
C10_LongPausesDue(n) == Cardinality({ k \in 1..n : k % 100 = 0 })

\* The place of the run in the program: where the interrupt found it, or pc.
C10_Place == IF interrupted_at # "none" THEN interrupted_at ELSE pc

\* The pauses C10 has in common with its amendment: none before the first
\* identifier, one of 3 s before each identifier that has a positive
\* multiple of 100 identifiers before it, one of 0.5 s after every
\* identifier that did not end the loop.
C10_Schedule ==
    /\ DOMAIN sleeps = {5, 30}
    /\ (page_count = 0) => (sleeps[5] = 0 /\ sleeps[30] = 0)
    /\ sleeps[30] = IF C10_Place \in MidStepPcs
                    THEN C10_LongPausesDue(page_count)
                    ELSE C10_LongPausesDue(page_count - 1)
    /\ C10_Place \in MidStepPcs \cup {"for", "ratelimit"} =>
          sleeps[5] = page_count
    /\ C10_Place \in {"stopcheck", "sleep"} => sleeps[5] = page_count - 1

\* The run is past its loop.
C10_PastLoop ==
    C10_Place \in {"finalize", "saving", "summary", "returned", "except",
                   "done", "crashed"}

\* C10, as claimed: the 0.5 s pause follows every identifier processed,
\* the one at which the run stops included.
C10_PauseAfterEveryIdentifier ==
    /\ C10_Schedule
    /\ C10_PastLoop => sleeps[5] = page_count

\* C10, amended: the 0.5 s pause follows every identifier processed except
\* the one at which the breaker stops the run (break skips it); the 3 s
\* pause precedes an identifier whenever the number of identifiers already
\* processed is a positive multiple of 100; no pause precedes the first.
C10_PauseUnlessBreakerStops ==
    /\ C10_Schedule
    /\ C10_PastLoop =>
          sleeps[5] = IF exit_reason = "breaker"
                      THEN page_count - 1 ELSE page_count

\* C10 witness: the breaker stopped a run of more than 100 identifiers.
C10_Witness ==
    /\ exit_reason = "breaker"
    /\ page_count > 100
    /\ sleeps[30] = 1
    /\ sleeps[5] = page_count - 1

\* ------------------------------------------------------------------ C11

\* C11: a step that ends with a non-success outcome (NotFound,
\* NotAProduct, TransportError, an empty name, or another exception caught
\* in scrape_product) has raised failed_scrapes by exactly 1 and left the
\* corpus and successful_scrapes as they were when the step began.
C11_FailureStepFrame ==
    (pc \in {"stopcheck", "sleep"} /\ outcome # "Success") =>
        /\ outcome \in {"NotFound", "NotAProduct", "TransportError",
                        "EmptyName", "Unexpected"}
        /\ failed_scrapes = entry.failed_scrapes + 1
        /\ products_data = entry.products_data
        /\ successful_scrapes = entry.successful_scrapes

\* C11 witness: a step in which the parser raised has ended, in a session
\* that already holds a record and a counted failure.
C11_Witness ==
    /\ pc = "stopcheck"
    /\ outcome = "Unexpected"
    /\ products_data # << >>
    /\ successful_scrapes = 1
    /\ failed_scrapes = 2

\* ------------------------------------------------------------------ C12

\* C12: whenever save_to_csv runs, successful_scrapes equals the number of
\* records in the corpus, and successful_scrapes + failed_scrapes equals
\* the number of identifiers processed.
C12_CountersMatchCorpusAtSave ==
    pc = "saving" =>
        /\ successful_scrapes = Len(products_data)
        /\ successful_scrapes + failed_scrapes = page_count

====
